---------------------------- MODULE Spec2Model ----------------------------
(***************************************************************************)
(* Model of the two dialogs of the GML application schema toolbox:         *)
(*                                                                         *)
(*   - SettingsDialog / ConfigOptionsPage                                  *)
(*       src/gml_application_schema_toolbox/resources/gui/dlg_settings.py  *)
(*   - CreationDialog                                                      *)
(*       src/qgis_complex_features/creation_dialog.py                      *)
(*                                                                         *)
(* A settings store is a record with one field per key; a field is the     *)
(* empty sequence when the key is absent and <<v>> when it holds v.        *)
(* A file path is a sequence of components, the empty sequence being the   *)
(* empty string (what a cancelled file dialog returns).                    *)
(***************************************************************************)
EXTENDS Integers, Sequences, FiniteSets, TLC

VARIABLES
    store,      \* QgsSettings, group __title__ (the plugin's settings group)
    dlg,        \* SettingsDialog: "none" | "open" | "failed" (constructor raised)
    form,       \* the widgets of the SettingsDialog form (when failed: as
                \* load_settings() left them when it raised)
    complex_features,  \* QSettings("complex_features")
    attributeTable,    \* CreationDialog: rows of the attribute table
    currentRow,        \* attributeTable.currentIndex().row(), -1 when invalid
    selection,         \* rows of the table's selection model
    removeMappingBtn,  \* enabled state of the remove button
    geometryColumnCheck,
    geometryColumnEdit,
    filenameText,
    outFilenameText,
    ret,        \* the call that ran last on the CreationDialog and its result
    lastPicked  \* history: per picker, the last file the user picked with it

settingsVars == <<store, dlg, form>>
tableVars == <<attributeTable, currentRow, selection, removeMappingBtn>>
geometryVars == <<geometryColumnCheck, geometryColumnEdit>>
pickerVars == <<complex_features, filenameText, outFilenameText, lastPicked>>
vars == <<settingsVars, tableVars, geometryVars, pickerVars, ret>>

---------------------------------------------------------------------------
(* Bounds of the model *)

\* stored option codes range over -MaxCode..MaxCode
MaxCode == 5
\* rows of the attribute table
MaxRows == 3

---------------------------------------------------------------------------
(* Settings dialog: dlg_settings.py *)

\* __title__ and __version__ of gml_application_schema_toolbox.__about__
DefaultUserAgent == "__title__/__version__"
Version == "__version__"

NoButton == "None"

\* QButtonGroup.addButton(button, id): position in the sequence = id
opt_group_access ==
    <<"createRadioButton", "updateRadioButton", "appendRadioButton",
      "overwriteRadioButton">>
opt_group_db_type == <<"pgsqlRadioButton", "sqliteRadioButton">>
opt_group_import_method == <<"gmlasRadioButton", "xmlRadioButton">>

\* QButtonGroup.button(id): the button with that id, None when there is none
button(group, id) == IF id \in DOMAIN group THEN group[id] ELSE NoButton

\* A checkedId() that counts the buttons from 0
checkedId_from_zero(group, checked) ==
    IF \E i \in DOMAIN group : group[i] = checked
    THEN (CHOOSE i \in DOMAIN group : group[i] = checked) - 1
    ELSE -1

\* QButtonGroup.checkedId(): id of the checked button, -1 when none is checked
checkedId(group, checked) ==
    IF \E i \in DOMAIN group : group[i] = checked
    THEN CHOOSE i \in DOMAIN group : group[i] = checked
    ELSE -1

abs(n) == IF n < 0 THEN -n ELSE n

\* QgsSettings.value(key, defaultValue)
value(settings, key, defaultValue) ==
    IF settings[key] = <<>> THEN defaultValue ELSE settings[key][1]

\* QgsSettings.setValue(key, v)
setValue(settings, key, v) == [settings EXCEPT ![key] = <<v>>]

\* Values the user can give the widgets of the form
FeatureLimits == {100, 10}
UserAgents == {DefaultUserAgent, ""}
Languages == {"en", "fr"}

\* The form as setupUi leaves it, before load_settings() has run
BlankForm ==
    [featureLimitBox |-> 0,
     httpUserAgentEdit |-> "",
     languageLineEdit |-> "",
     opt_group_access |-> NoButton,
     opt_group_db_type |-> NoButton,
     opt_group_import_method |-> NoButton,
     opt_debug |-> FALSE,
     gmlasConfigLineEdit |-> <<>>]

\* load_settings(): the form after the call and whether the call raised.
\* button(id) is None for an id no button has, and None.setChecked raises
\* AttributeError: the statements after it do not run.
load_settings(f, s) ==
    LET f1 == [f EXCEPT
                 !.featureLimitBox = value(s, "network_max_features", 100),
                 !.httpUserAgentEdit =
                     value(s, "network_http_user_agent", DefaultUserAgent),
                 !.languageLineEdit = value(s, "impex_language", "en")]
        a == button(opt_group_access, abs(value(s, "impex_access_mode", 1)))
        d == button(opt_group_db_type, abs(value(s, "impex_db_type", 1)))
        m == button(opt_group_import_method,
                    abs(value(s, "impex_import_method", 1)))
        f2 == [f1 EXCEPT !.opt_group_access = a]
        f3 == [f2 EXCEPT !.opt_group_db_type = d]
        f4 == [f3 EXCEPT !.opt_group_import_method = m]
    IN  IF a = NoButton THEN [form |-> f1, raised |-> TRUE]
        ELSE IF d = NoButton THEN [form |-> f2, raised |-> TRUE]
        ELSE IF m = NoButton THEN [form |-> f3, raised |-> TRUE]
        ELSE [form |-> [f4 EXCEPT !.opt_debug = value(s, "debug_mode", FALSE)],
              raised |-> FALSE]

\* save_settings(): the store after the call
save_settings(f, s) ==
    LET s1 == setValue(s, "network_max_features", f.featureLimitBox)
        s2 == setValue(s1, "network_http_user_agent", f.httpUserAgentEdit)
        s3 == setValue(s2, "impex_language", f.languageLineEdit)
        s4 == setValue(s3, "impex_access_mode",
                       abs(checkedId(opt_group_access, f.opt_group_access)))
        s5 == setValue(s4, "impex_db_type",
                       abs(checkedId(opt_group_db_type, f.opt_group_db_type)))
        s6 == setValue(s5, "impex_import_method",
                       abs(checkedId(opt_group_import_method,
                                     f.opt_group_import_method)))
        s7 == setValue(s6, "debug_mode", f.opt_debug)
    IN  setValue(s7, "version", Version)

UnchangedCreation == UNCHANGED <<tableVars, geometryVars, pickerVars, ret>>

\* SettingsDialog.__init__ (also through ConfigOptionsPage.__init__):
\* setupUi, button ids, load_settings()
SettingsDialog_init ==
    /\ dlg \in {"none", "failed"}
    /\ LET r == load_settings(BlankForm, store)
       IN  IF r.raised
           THEN dlg' = "failed" /\ form' = r.form
           ELSE dlg' = "open" /\ form' = r.form
    /\ UNCHANGED store
    /\ UnchangedCreation

\* closeEvent: the widget closes
closeEvent ==
    /\ dlg = "open"
    /\ dlg' = "none"
    /\ form' = BlankForm
    /\ UNCHANGED store
    /\ UnchangedCreation

\* The user edits a widget of the form
featureLimitBox_edit(v) ==
    /\ dlg = "open"
    /\ form' = [form EXCEPT !.featureLimitBox = v]
    /\ UNCHANGED <<store, dlg>>
    /\ UnchangedCreation

httpUserAgentEdit_edit(t) ==
    /\ dlg = "open"
    /\ form' = [form EXCEPT !.httpUserAgentEdit = t]
    /\ UNCHANGED <<store, dlg>>
    /\ UnchangedCreation

languageLineEdit_edit(t) ==
    /\ dlg = "open"
    /\ form' = [form EXCEPT !.languageLineEdit = t]
    /\ UNCHANGED <<store, dlg>>
    /\ UnchangedCreation

\* A click on a radio button checks it and unchecks the others of its group
opt_group_access_click(i) ==
    /\ dlg = "open"
    /\ form' = [form EXCEPT !.opt_group_access = opt_group_access[i]]
    /\ UNCHANGED <<store, dlg>>
    /\ UnchangedCreation

opt_group_db_type_click(i) ==
    /\ dlg = "open"
    /\ form' = [form EXCEPT !.opt_group_db_type = opt_group_db_type[i]]
    /\ UNCHANGED <<store, dlg>>
    /\ UnchangedCreation

opt_group_import_method_click(i) ==
    /\ dlg = "open"
    /\ form' = [form EXCEPT
                  !.opt_group_import_method = opt_group_import_method[i]]
    /\ UNCHANGED <<store, dlg>>
    /\ UnchangedCreation

opt_debug_toggle ==
    /\ dlg = "open"
    /\ form' = [form EXCEPT !.opt_debug = ~form.opt_debug]
    /\ UNCHANGED <<store, dlg>>
    /\ UnchangedCreation

\* What the base class does on super().accept() / super().reject(): the
\* widget stays as it is or is closed
super_done ==
    \/ UNCHANGED <<dlg, form>>
    \/ dlg' = "none" /\ form' = BlankForm

\* accept(): save_settings(), then super().accept()
accept ==
    /\ dlg = "open"
    /\ store' = save_settings(form, store)
    /\ super_done
    /\ UnchangedCreation

\* A reject() that saves the form as accept() does
reject_saving ==
    /\ dlg = "open"
    /\ store' = save_settings(form, store)
    /\ super_done
    /\ UnchangedCreation

\* reject(): super().reject()
reject ==
    /\ dlg = "open"
    /\ UNCHANGED store
    /\ super_done
    /\ UnchangedCreation

\* ConfigOptionsPage.apply(): dlg_settings.save_settings()
apply ==
    /\ dlg = "open"
    /\ store' = save_settings(form, store)
    /\ UNCHANGED <<dlg, form>>
    /\ UnchangedCreation


---------------------------------------------------------------------------
(* File paths and file dialogs *)

Dirs == {<<"home">>, <<"data">>}
Files == {"a", "b"}
\* The files a user can pick in a file dialog
Paths == {d \o <<f>> : d \in Dirs, f \in Files}
\* The one file offered by the file dialog in the settings life cycle
ConfigPaths == {<<"home", "a">>}

\* os.path.dirname
dirname(path) == IF path = <<>> THEN <<>> ELSE SubSeq(path, 1, Len(path) - 1)

\* QFileDialog: the directory a dialog given the start argument dir opens
\* in; when dir names a file, its directory (and the file is selected)
startDirectory(dir) ==
    IF dir # <<>> /\ dir[Len(dir)] \in Files THEN dirname(dir) ELSE dir

\* The start argument each picker hands to its file dialog
gmlasConfig_openDir == form.gmlasConfigLineEdit
onBrowse_openDir == value(complex_features, "xml_file_location", <<>>)
onBrowseOut_openDir == value(complex_features, "out_file_location", <<>>)

\* on_gmlasConfigButton_clicked: path is what getOpenFileName returns
on_gmlasConfigButton_clicked(path) ==
    /\ dlg = "open"
    /\ IF path # <<>>
       THEN /\ form' = [form EXCEPT !.gmlasConfigLineEdit = path]
            /\ lastPicked' = [lastPicked EXCEPT !.gmlasConfig = path]
       ELSE UNCHANGED <<form, lastPicked>>
    /\ UNCHANGED <<store, dlg>>
    /\ UNCHANGED <<complex_features, filenameText, outFilenameText>>
    /\ UNCHANGED <<tableVars, geometryVars, ret>>

---------------------------------------------------------------------------
(* Specifications of the settings dialog *)

EmptyStore ==
    [network_max_features |-> <<>>, network_http_user_agent |-> <<>>,
     impex_language |-> <<>>, impex_access_mode |-> <<>>,
     impex_db_type |-> <<>>, impex_import_method |-> <<>>,
     debug_mode |-> <<>>, version |-> <<>>]

Keys == DOMAIN EmptyStore

\* absent, or one of the values of S
Optional(S) == {<<>>} \cup {<<v>> : v \in S}

\* Every store over the modelled values: any key absent, any integer of
\* -MaxCode..MaxCode as an option code
AnyStore ==
    [network_max_features : Optional(FeatureLimits),
     network_http_user_agent : Optional(UserAgents),
     impex_language : Optional(Languages),
     impex_access_mode : Optional(-MaxCode..MaxCode),
     impex_db_type : Optional(-MaxCode..MaxCode),
     impex_import_method : Optional(-MaxCode..MaxCode),
     debug_mode : Optional(BOOLEAN),
     version : Optional({Version})]

\* What an earlier version of the plugin left in the store (the ids Qt
\* assigns itself are negative, from -2 downwards)
Legacy ==
    [network_max_features |-> <<10>>, network_http_user_agent |-> <<"">>,
     impex_language |-> <<"fr">>, impex_access_mode |-> <<-3>>,
     impex_db_type |-> <<-2>>, impex_import_method |-> <<2>>,
     debug_mode |-> <<TRUE>>, version |-> <<"__old_version__">>]

\* The stores at the start of the settings life cycle: a fresh store, the
\* legacy store, and the stores holding one legacy key
LegacyStores ==
    {[k \in Keys |-> IF k \in K THEN Legacy[k] ELSE <<>>] :
        K \in {{}, Keys} \cup {{k} : k \in Keys}}

\* The creation dialog as constructed with its default arguments
NoCall == [fn |-> "none", val |-> <<>>]
NoPick == [gmlasConfig |-> <<>>, onBrowse |-> <<>>, onBrowseOut |-> <<>>]
EmptySettings == [xml_file_location |-> <<>>, out_file_location |-> <<>>]
TempFile == <<"tmp", "tmpfile">>

CreationIdle ==
    /\ attributeTable = <<>>
    /\ currentRow = -1
    /\ selection = {}
    /\ removeMappingBtn = FALSE
    /\ geometryColumnCheck = FALSE
    /\ geometryColumnEdit = ""
    /\ filenameText = <<>>
    /\ outFilenameText = TempFile
    /\ complex_features = EmptySettings
    /\ ret = NoCall
    /\ lastPicked = NoPick

InitLoad ==
    /\ store \in AnyStore
    /\ dlg = "none"
    /\ form = BlankForm
    /\ CreationIdle

NextLoad ==
    \/ SettingsDialog_init
    \/ closeEvent

SpecLoad == InitLoad /\ [][NextLoad]_vars

InitSettings ==
    /\ store \in LegacyStores
    /\ dlg = "none"
    /\ form = BlankForm
    /\ CreationIdle

NextSettings ==
    \/ SettingsDialog_init
    \/ closeEvent
    \/ \E v \in FeatureLimits : featureLimitBox_edit(v)
    \/ \E t \in UserAgents : httpUserAgentEdit_edit(t)
    \/ \E t \in Languages : languageLineEdit_edit(t)
    \/ \E i \in DOMAIN opt_group_access : opt_group_access_click(i)
    \/ \E i \in DOMAIN opt_group_db_type : opt_group_db_type_click(i)
    \/ \E i \in DOMAIN opt_group_import_method : opt_group_import_method_click(i)
    \/ opt_debug_toggle
    \/ \E path \in ConfigPaths \cup {<<>>} : on_gmlasConfigButton_clicked(path)
    \/ accept
    \/ reject
    \/ apply

SpecSettings == InitSettings /\ [][NextSettings]_vars


---------------------------------------------------------------------------
(* Claims about the settings dialog *)

\* The option codes as the SettingsDialog docstring gives them
OptionCodes ==
    [impex_import_method |-> <<"GMLAS", "XML">>,
     impex_db_type |-> <<"SQLite", "PostgreSQL">>]

\* What each radio button of the two groups selects
ButtonLabel ==
    [pgsqlRadioButton |-> "PostgreSQL", sqliteRadioButton |-> "SQLite",
     gmlasRadioButton |-> "GMLAS", xmlRadioButton |-> "XML"]

OneChecked(group, checked) == \E i \in DOMAIN group : group[i] = checked

\* C2: for every form the settings dialog reaches, save_settings() followed
\* by load_settings() raises nothing and leaves the feature limit, the user
\* agent, the language, the checked button of each of the three groups and
\* the debug flag as they were before the save.
C2_SaveLoadRoundTrip ==
    dlg = "open" =>
        LET r == load_settings(form, save_settings(form, store))
        IN  /\ ~r.raised
            /\ r.form.featureLimitBox = form.featureLimitBox
            /\ r.form.httpUserAgentEdit = form.httpUserAgentEdit
            /\ r.form.languageLineEdit = form.languageLineEdit
            /\ r.form.opt_group_access = form.opt_group_access
            /\ r.form.opt_group_db_type = form.opt_group_db_type
            /\ r.form.opt_group_import_method = form.opt_group_import_method
            /\ r.form.opt_debug = form.opt_debug

\* A form that differs from the defaults in every field has been saved and
\* is the form the store loads
C2_Witness ==
    /\ dlg = "open"
    /\ store = save_settings(form, store)
    /\ form = load_settings(form, store).form
    /\ form.featureLimitBox = 10
    /\ form.httpUserAgentEdit = ""
    /\ form.languageLineEdit = "fr"
    /\ form.opt_group_access = "overwriteRadioButton"
    /\ form.opt_group_db_type = "sqliteRadioButton"
    /\ form.opt_group_import_method = "xmlRadioButton"
    /\ form.opt_debug

UserEdit ==
    \/ \E v \in FeatureLimits : featureLimitBox_edit(v)
    \/ \E t \in UserAgents : httpUserAgentEdit_edit(t)
    \/ \E t \in Languages : languageLineEdit_edit(t)
    \/ \E i \in DOMAIN opt_group_access : opt_group_access_click(i)
    \/ \E i \in DOMAIN opt_group_db_type : opt_group_db_type_click(i)
    \/ \E i \in DOMAIN opt_group_import_method : opt_group_import_method_click(i)
    \/ opt_debug_toggle

\* C3: the keys of the plugin's settings group change only in an accept() or
\* apply() step; the construction of the dialog (load_settings), a user
\* edit, the GMLAS config file picker, closing and reject() leave every
\* stored key unchanged.
C3_FlushedOnlyOnAccept ==
    [][ /\ store' # store => (accept \/ apply)
        /\ ( \/ SettingsDialog_init
             \/ closeEvent
             \/ UserEdit
             \/ \E path \in ConfigPaths \cup {<<>>} :
                    on_gmlasConfigButton_clicked(path)
             \/ reject ) => store' = store ]_vars

\* The store has been flushed from a form that was edited, and a file was
\* picked with the GMLAS config picker
C3_Witness ==
    /\ store.version = <<Version>>
    /\ store.impex_language = <<"en">>
    /\ store.impex_access_mode = <<4>>
    /\ lastPicked.gmlasConfig # <<>>

\* C4 (as claimed): when the dialog is constructed, load_settings() runs, and
\* for every key absent from the store the form shows the default of that
\* key, whatever the other keys hold.
C4_DefaultsOnMissingKeys ==
    dlg \in {"open", "failed"} =>
        /\ store.network_max_features = <<>> => form.featureLimitBox = 100
        /\ store.impex_language = <<>> => form.languageLineEdit = "en"
        /\ store.impex_access_mode = <<>> =>
               form.opt_group_access = opt_group_access[1]
        /\ store.impex_db_type = <<>> =>
               form.opt_group_db_type = opt_group_db_type[1]
        /\ store.impex_import_method = <<>> =>
               form.opt_group_import_method = opt_group_import_method[1]
        /\ store.debug_mode = <<>> => form.opt_debug = FALSE

\* C5 (as claimed): the codes mean what the docstring says. A loaded code
\* (or the default 1 of a missing key) checks the button of the documented
\* option, and saving stores the documented code of the checked button.
C5_CodesAsDocumented ==
    dlg = "open" =>
        /\ ButtonLabel[form.opt_group_db_type] =
               OptionCodes.impex_db_type[abs(value(store, "impex_db_type", 1))]
        /\ ButtonLabel[form.opt_group_import_method] =
               OptionCodes.impex_import_method[
                   abs(value(store, "impex_import_method", 1))]
        /\ LET s == save_settings(form, store)
           IN  /\ OptionCodes.impex_db_type[s.impex_db_type[1]] =
                      ButtonLabel[form.opt_group_db_type]
               /\ OptionCodes.impex_import_method[s.impex_import_method[1]] =
                      ButtonLabel[form.opt_group_import_method]

\* C8 (as claimed): whatever integers the store holds as option codes, the
\* load completes and exactly one button of each group is checked, a stored
\* code -k being decoded as k.
C8_LoadNeverFails ==
    /\ dlg # "failed"
    /\ dlg = "open" =>
        /\ OneChecked(opt_group_access, form.opt_group_access)
        /\ OneChecked(opt_group_db_type, form.opt_group_db_type)
        /\ OneChecked(opt_group_import_method, form.opt_group_import_method)


---------------------------------------------------------------------------
(* Creation dialog: creation_dialog.py, the attribute table *)

\* Texts the user can type into a cell of the table
Names == {"", "a"}
XPaths == {"", "x"}

\* The items onAddMapping gives the combo box of a row: the data of the
\* item at index i is ComboData[i + 1]
ComboItems == <<"String", "Integer", "Real">>
ComboData == <<"QVariant.String", "QVariant.Int", "QVariant.Double">>
itemData(index) == ComboData[index + 1]

\* The row onAddMapping creates: two empty items, the combo at its first item
NewRow == [attr |-> "", combo |-> 0, xpath |-> ""]

\* QTableWidget.insertRow(row), rows counted from 0, and the row's cells
insertRow(table, row, cells) ==
    SubSeq(table, 1, row) \o <<cells>> \o SubSeq(table, row + 1, Len(table))

\* A removeRow that takes the row for counted from 1
removeRow_from_one(table, row) ==
    IF row < 1 \/ row > Len(table)
    THEN table
    ELSE SubSeq(table, 1, row - 1) \o SubSeq(table, row + 1, Len(table))

\* QTableWidget.removeRow(row): nothing for a row the table does not have
removeRow(table, row) ==
    IF row < 0 \/ row >= Len(table)
    THEN table
    ELSE SubSeq(table, 1, row) \o SubSeq(table, row + 2, Len(table))

\* The row the views make current when row `row` of n rows goes away: the
\* row before it or the row after it (none when the table gets empty)
currentAfterRemove(row, n) ==
    IF n = 1 THEN {-1}
    ELSE {IF row > 0 THEN row - 1 ELSE 0, IF row < n - 1 THEN row ELSE n - 2}

\* selected != -1, selected being the QItemSelection of the signal: an item
\* selection never equals an integer
selected_ne(selected, n) == TRUE

\* onSelectMapping(selected, deselected): the enabled state it sets
onSelectMapping(selected) == selected_ne(selected, -1)

Called(fn) == [fn |-> fn, val |-> <<>>]

UnchangedSettings == UNCHANGED <<settingsVars, complex_features, lastPicked>>

\* onAddMapping(): a click on the add button
onAddMapping ==
    /\ Len(attributeTable) < MaxRows
    /\ LET lastRow == Len(attributeTable)
       IN  attributeTable' = insertRow(attributeTable, lastRow, NewRow)
    /\ ret' = Called("onAddMapping")
    /\ UNCHANGED <<currentRow, selection, removeMappingBtn>>
    /\ UNCHANGED <<geometryVars, filenameText, outFilenameText>>
    /\ UnchangedSettings

\* onRemoveMapping(): a click on the remove button, which must be enabled.
\* Removing a selected row takes it out of the selection, which signals
\* selectionChanged.
onRemoveMapping ==
    /\ removeMappingBtn
    /\ LET idx == currentRow
       IN  /\ attributeTable' = removeRow(attributeTable, idx)
           /\ IF idx >= 0 /\ idx < Len(attributeTable)
              THEN /\ currentRow' \in currentAfterRemove(idx, Len(attributeTable))
                   /\ selection' = {}
                   /\ removeMappingBtn' =
                          IF idx \in selection
                          THEN onSelectMapping({})
                          ELSE removeMappingBtn
              ELSE UNCHANGED <<currentRow, selection, removeMappingBtn>>
    /\ ret' = Called("onRemoveMapping")
    /\ UNCHANGED <<geometryVars, filenameText, outFilenameText>>
    /\ UnchangedSettings

\* The user clicks on row r: it becomes the current row and the selection;
\* a changed selection signals selectionChanged
selectRow(r) ==
    /\ r \in 0..(Len(attributeTable) - 1)
    /\ currentRow' = r
    /\ selection' = {r}
    /\ removeMappingBtn' =
           IF selection' # selection
           THEN onSelectMapping(selection')
           ELSE removeMappingBtn
    /\ ret' = NoCall
    /\ UNCHANGED attributeTable
    /\ UNCHANGED <<geometryVars, filenameText, outFilenameText>>
    /\ UnchangedSettings

\* The user takes the selected row out of the selection (ctrl + click)
deselectRow ==
    /\ selection # {}
    /\ selection' = {}
    /\ removeMappingBtn' = onSelectMapping({})
    /\ ret' = NoCall
    /\ UNCHANGED <<attributeTable, currentRow>>
    /\ UNCHANGED <<geometryVars, filenameText, outFilenameText>>
    /\ UnchangedSettings

\* The user edits a cell of row r (rows counted from 0)
editCell(r, cells) ==
    /\ r \in 0..(Len(attributeTable) - 1)
    /\ attributeTable' = [attributeTable EXCEPT ![r + 1] = cells]
    /\ ret' = NoCall
    /\ UNCHANGED <<currentRow, selection, removeMappingBtn>>
    /\ UNCHANGED <<geometryVars, filenameText, outFilenameText>>
    /\ UnchangedSettings

editAttr(r, t) ==
    /\ r \in 0..(Len(attributeTable) - 1)
    /\ editCell(r, [attributeTable[r + 1] EXCEPT !.attr = t])

editCombo(r, i) ==
    /\ r \in 0..(Len(attributeTable) - 1)
    /\ editCell(r, [attributeTable[r + 1] EXCEPT !.combo = i])

editXPath(r, t) ==
    /\ r \in 0..(Len(attributeTable) - 1)
    /\ editCell(r, [attributeTable[r + 1] EXCEPT !.xpath = t])

\* A dict update that keeps the entry an attribute name already has
setitem_keep_first(mapping, attr, v) ==
    [a \in DOMAIN mapping \cup {attr} |->
        IF a \in DOMAIN mapping THEN mapping[a] ELSE v]

\* A dict with mapping[attr] = (xpath, type) set
setitem(mapping, attr, v) ==
    [a \in DOMAIN mapping \cup {attr} |-> IF a = attr THEN v ELSE mapping[a]]

\* The mapping attribute_mapping() holds after the loop has run for the
\* first n rows
RECURSIVE mapping_of(_, _)
mapping_of(table, n) ==
    IF n = 0
    THEN [a \in {} |-> <<>>]
    ELSE LET row == table[n]
         IN  setitem(mapping_of(table, n - 1), row.attr,
                     <<row.xpath, itemData(row.combo)>>)

\* attribute_mapping(): the dict it returns
attribute_mapping(table) == mapping_of(table, Len(table))

\* A caller asks the dialog for the attribute mapping
call_attribute_mapping ==
    /\ ret' = [fn |-> "attribute_mapping",
               val |-> attribute_mapping(attributeTable)]
    /\ UNCHANGED <<tableVars, geometryVars, filenameText, outFilenameText>>
    /\ UnchangedSettings

InitMapping ==
    /\ store = EmptyStore
    /\ dlg = "none"
    /\ form = BlankForm
    /\ attributeTable = <<>>
    /\ currentRow = -1
    /\ selection = {}
    /\ removeMappingBtn \in BOOLEAN
    /\ geometryColumnCheck = FALSE
    /\ geometryColumnEdit = ""
    /\ filenameText = <<>>
    /\ outFilenameText = TempFile
    /\ complex_features = EmptySettings
    /\ ret = NoCall
    /\ lastPicked = NoPick

NextMapping ==
    \/ onAddMapping
    \/ onRemoveMapping
    \/ \E r \in 0..(MaxRows - 1) : selectRow(r)
    \/ deselectRow
    \/ \E r \in 0..(MaxRows - 1), t \in Names : editAttr(r, t)
    \/ \E r \in 0..(MaxRows - 1), i \in 0..(Len(ComboItems) - 1) : editCombo(r, i)
    \/ \E r \in 0..(MaxRows - 1), t \in XPaths : editXPath(r, t)
    \/ call_attribute_mapping

SpecMapping == InitMapping /\ [][NextMapping]_vars


---------------------------------------------------------------------------
(* Claims about the attribute table *)

RowNames(table) == {table[i].attr : i \in 1..Len(table)}

\* The value type each combo item stands for
TypeOfItem ==
    [String |-> "QVariant.String", Integer |-> "QVariant.Int",
     Real |-> "QVariant.Double"]

\* C1 (as claimed): attribute_mapping() returns exactly one entry per table
\* row, also for rows that share an attribute name: the number of entries
\* equals the row count.
C1_OneEntryPerRow ==
    ret.fn = "attribute_mapping" =>
        Cardinality(DOMAIN ret.val) = Len(attributeTable)

\* C1 (amended): attribute_mapping() returns a mapping keyed by attribute
\* name with one entry per distinct attribute name of the table; an entry
\* carries the xpath and the value type of the last row with that name. The
\* number of entries equals the row count exactly when the names of the
\* rows are pairwise distinct.
C1_OneEntryPerName ==
    ret.fn = "attribute_mapping" =>
        LET n == Len(attributeTable)
        IN  /\ DOMAIN ret.val = RowNames(attributeTable)
            /\ \A i \in 1..n :
                 (\A j \in (i + 1)..n :
                      attributeTable[j].attr # attributeTable[i].attr)
                 => ret.val[attributeTable[i].attr] =
                      <<attributeTable[i].xpath,
                        TypeOfItem[ComboItems[attributeTable[i].combo + 1]]>>
            /\ (Cardinality(DOMAIN ret.val) = n) <=>
                 (\A i, j \in 1..n :
                      attributeTable[i].attr = attributeTable[j].attr => i = j)

\* The mapping of a table whose first and last row share a name and differ
\* in xpath and type has been returned
C1_Witness ==
    /\ ret.fn = "attribute_mapping"
    /\ Len(attributeTable) = 3
    /\ attributeTable[1].attr = "a"
    /\ attributeTable[2].attr = ""
    /\ attributeTable[3].attr = "a"
    /\ attributeTable[1].xpath = "x"
    /\ attributeTable[3].xpath = ""
    /\ attributeTable[1].combo = 1
    /\ attributeTable[3].combo = 2
    /\ Cardinality(DOMAIN ret.val) = 2

\* C9 (as claimed): after every change of the table's selection the remove
\* button is enabled if and only if a row is selected.
C9_RemoveButtonFollowsSelection ==
    [][ selection' # selection =>
            (removeMappingBtn' <=> selection' # {}) ]_vars

\* C10: onAddMapping() appends one row with an empty attribute name, an
\* empty xpath and type String; onRemoveMapping() deletes exactly the
\* current row when there is one and nothing when there is none; all other
\* rows keep their contents and their relative order.
C10_AddRemovePreserveRows ==
    [][ /\ onAddMapping =>
              /\ Len(attributeTable') = Len(attributeTable) + 1
              /\ \A i \in 1..Len(attributeTable) :
                     attributeTable'[i] = attributeTable[i]
              /\ LET row == attributeTable'[Len(attributeTable')]
                 IN  /\ row.attr = ""
                     /\ row.xpath = ""
                     /\ ComboItems[row.combo + 1] = "String"
        /\ onRemoveMapping =>
              IF currentRow \in 0..(Len(attributeTable) - 1)
              THEN /\ Len(attributeTable') = Len(attributeTable) - 1
                   /\ \A i \in 1..Len(attributeTable') :
                          attributeTable'[i] =
                              attributeTable[IF i <= currentRow THEN i ELSE i + 1]
              ELSE attributeTable' = attributeTable ]_vars

\* The middle row of three rows with contents of their own has been removed
C10_Witness ==
    /\ ret.fn = "onRemoveMapping"
    /\ currentRow >= 0
    /\ Len(attributeTable) = 2
    /\ attributeTable[1] = [attr |-> "a", combo |-> 1, xpath |-> "x"]
    /\ attributeTable[2] = [attr |-> "", combo |-> 2, xpath |-> "x"]


---------------------------------------------------------------------------
(* Creation dialog: the geometry column and the file pickers *)

\* Texts the user can type into the geometry column field
GeometryTexts == {"", "g"}

\* A geometry_mapping() that returns the text when the box is checked or
\* the field is filled
geometry_mapping_or(checked, text) ==
    IF checked \/ text # "" THEN <<text>> ELSE <<>>

\* geometry_mapping(): <<text>> for a returned text, <<>> for None
geometry_mapping(checked, text) ==
    IF checked /\ text # "" THEN <<text>> ELSE <<>>

UnchangedTable == UNCHANGED tableVars

geometryColumnCheck_toggle ==
    /\ geometryColumnCheck' = ~geometryColumnCheck
    /\ ret' = NoCall
    /\ UNCHANGED <<geometryColumnEdit, filenameText, outFilenameText>>
    /\ UnchangedTable
    /\ UnchangedSettings

geometryColumnEdit_edit(t) ==
    /\ geometryColumnEdit' = t
    /\ ret' = NoCall
    /\ UNCHANGED <<geometryColumnCheck, filenameText, outFilenameText>>
    /\ UnchangedTable
    /\ UnchangedSettings

\* A caller asks the dialog for the geometry mapping
call_geometry_mapping ==
    /\ ret' = [fn |-> "geometry_mapping",
               val |-> geometry_mapping(geometryColumnCheck, geometryColumnEdit)]
    /\ UNCHANGED <<geometryVars, filenameText, outFilenameText>>
    /\ UnchangedTable
    /\ UnchangedSettings

\* onBrowse(): xml_file is what getOpenFileName returns
onBrowse(xml_file) ==
    /\ IF xml_file # <<>>
       THEN /\ complex_features' =
                   setValue(complex_features, "xml_file_location",
                            dirname(xml_file))
            /\ filenameText' = xml_file
            /\ lastPicked' = [lastPicked EXCEPT !.onBrowse = xml_file]
       ELSE UNCHANGED <<complex_features, filenameText, lastPicked>>
    /\ ret' = NoCall
    /\ UNCHANGED <<outFilenameText, geometryVars, settingsVars>>
    /\ UnchangedTable

\* An onBrowseOut() that stores its directory under the key of onBrowse()
onBrowseOut_shared_key(sqlite_file) ==
    /\ IF sqlite_file # <<>>
       THEN /\ complex_features' =
                   setValue(complex_features, "xml_file_location",
                            dirname(sqlite_file))
            /\ outFilenameText' = sqlite_file
            /\ lastPicked' = [lastPicked EXCEPT !.onBrowseOut = sqlite_file]
       ELSE UNCHANGED <<complex_features, outFilenameText, lastPicked>>
    /\ ret' = NoCall
    /\ UNCHANGED <<filenameText, geometryVars, settingsVars>>
    /\ UnchangedTable

\* onBrowseOut(): sqlite_file is what getSaveFileName returns
onBrowseOut(sqlite_file) ==
    /\ IF sqlite_file # <<>>
       THEN /\ complex_features' =
                   setValue(complex_features, "out_file_location",
                            dirname(sqlite_file))
            /\ outFilenameText' = sqlite_file
            /\ lastPicked' = [lastPicked EXCEPT !.onBrowseOut = sqlite_file]
       ELSE UNCHANGED <<complex_features, outFilenameText, lastPicked>>
    /\ ret' = NoCall
    /\ UNCHANGED <<filenameText, geometryVars, settingsVars>>
    /\ UnchangedTable

InitForm ==
    /\ store = EmptyStore
    /\ dlg = "none"
    /\ form = BlankForm
    /\ attributeTable = <<>>
    /\ currentRow = -1
    /\ selection = {}
    /\ removeMappingBtn = FALSE
    /\ geometryColumnCheck = FALSE
    /\ geometryColumnEdit = ""
    /\ filenameText = <<>>
    /\ outFilenameText = TempFile
    /\ complex_features \in
           [xml_file_location : Optional(Dirs), out_file_location : Optional(Dirs)]
    /\ ret = NoCall
    /\ lastPicked = NoPick

NextForm ==
    \/ geometryColumnCheck_toggle
    \/ \E t \in GeometryTexts : geometryColumnEdit_edit(t)
    \/ call_geometry_mapping
    \/ \E path \in Paths \cup {<<>>} : onBrowse(path)
    \/ \E path \in Paths \cup {<<>>} : onBrowseOut(path)
    \/ SettingsDialog_init
    \/ closeEvent
    \/ \E path \in Paths \cup {<<>>} : on_gmlasConfigButton_clicked(path)

SpecForm == InitForm /\ [][NextForm]_vars

---------------------------------------------------------------------------
(* Claims about the geometry column and the file pickers *)

\* C7: geometry_mapping() returns the text of the geometry column field
\* exactly when the box is checked and the field is not empty, and None in
\* every other combination.
C7_GeometryMapping ==
    ret.fn = "geometry_mapping" =>
        /\ (ret.val # <<>>) <=> (geometryColumnCheck /\ geometryColumnEdit # "")
        /\ ret.val # <<>> => ret.val = <<geometryColumnEdit>>

\* geometry_mapping() has returned the text of a filled field
C7_Witness ==
    /\ ret.fn = "geometry_mapping"
    /\ geometryColumnCheck
    /\ geometryColumnEdit = "g"
    /\ ret.val = <<"g">>

\* The settings keys of QSettings("complex_features") each picker uses
PickerKeys ==
    [gmlasConfig |-> {},
     onBrowse |-> {"xml_file_location"},
     onBrowseOut |-> {"out_file_location"}]

\* The directory the file dialog of a picker opens in
PickerStart ==
    [gmlasConfig |-> startDirectory(gmlasConfig_openDir),
     onBrowse |-> startDirectory(onBrowse_openDir),
     onBrowseOut |-> startDirectory(onBrowseOut_openDir)]

\* Picker p remembers the directory of the file last picked with it: a key
\* no other picker uses holds it, and the next file dialog of p opens there
Remembers(p) ==
    lastPicked[p] # <<>> =>
        /\ \E k \in PickerKeys[p] :
              /\ complex_features[k] = <<dirname(lastPicked[p])>>
              /\ \A q \in DOMAIN PickerKeys \ {p} : k \notin PickerKeys[q]
        /\ PickerStart[p] = dirname(lastPicked[p])

\* C6 (as claimed): each of the three pickers remembers its last-used
\* directory under a settings key of its own.
C6_EveryPickerRemembers ==
    \A p \in {"gmlasConfig", "onBrowse", "onBrowseOut"} : Remembers(p)

\* C6 (amended): the two pickers of the creation dialog (source XML/GML
\* file, output SQLite file) each remember the last-used directory under a
\* key of their own, xml_file_location and out_file_location, and open there
\* next time; no pick with any of the three pickers changes the directory
\* another picker remembers. The GMLAS config picker writes no settings key.
C6_CreationPickersRemember ==
    /\ [](\A p \in {"onBrowse", "onBrowseOut"} : Remembers(p))
    /\ [][ (\E path \in Paths \cup {<<>>} : on_gmlasConfigButton_clicked(path))
               => UNCHANGED <<store, complex_features>> ]_vars

\* Files of different directories have been picked with the three pickers
C6_Witness ==
    /\ lastPicked.onBrowse = <<"home", "a">>
    /\ lastPicked.onBrowseOut = <<"data", "b">>
    /\ lastPicked.gmlasConfig = <<"data", "a">>
    /\ complex_features.xml_file_location = <<<<"home">>>>
    /\ complex_features.out_file_location = <<<<"data">>>>

=============================================================================
